---- MODULE Spec2Model ----
(***************************************************************************)
(* Model of mdlabelgen (src/src/main.rs): one run of main, from the parsed *)
(* command line to the save of the printable sheet.                        *)
(*                                                                         *)
(* Text is a sequence of one-character strings, so that to_uppercase is a  *)
(* real conversion.  Paths are strings.  An Option<T> is a record          *)
(* [some, val].  An image is described by what was drawn on it: the label  *)
(* canvas by its list of drawing operations, the printable sheet by the    *)
(* origin of every pixel column (every row of the sheet receives the same  *)
(* columns: all labels are overlaid at y = 0 and LABEL_HEIGHT_PX =         *)
(* PRINTABLE_HEIGHT_PX).                                                   *)
(***************************************************************************)
EXTENDS Integers, Sequences, FiniteSets, TLC

(* ---------------------------------------------------------------------- *)
(* Bounds of the checked input space.                                      *)
(* ---------------------------------------------------------------------- *)
MaxLabels == 4

(* ---------------------------------------------------------------------- *)
(* Constants of main.rs.                                                   *)
(* ---------------------------------------------------------------------- *)
PRINTABLE_HEIGHT == 50
PRITNABLE_WIDTH == 76
LABEL_HEIGHT == 50
LABEL_WIDTH == 36
DESIRED_DPMM == 24

LABEL_WIDTH_PX == LABEL_WIDTH * DESIRED_DPMM
LABEL_HEIGHT_PX == LABEL_HEIGHT * DESIRED_DPMM
PRITNABLE_WIDTH_PX == PRITNABLE_WIDTH * DESIRED_DPMM
PRINTABLE_HEIGHT_PX == PRINTABLE_HEIGHT * DESIRED_DPMM

PADDING == 40
MARGIN == 20
MD_LOGO_SIZE == 160
TEXT_SIZE_PT == 60

TEXT_AREA_HEIGHT == LABEL_HEIGHT_PX - LABEL_WIDTH_PX
LINE_HEIGHT == TEXT_AREA_HEIGHT \div 3

(* ---------------------------------------------------------------------- *)
(* Option<T>, text and to_uppercase.                                       *)
(* ---------------------------------------------------------------------- *)
None == [some |-> FALSE, val |-> <<>>]
Some(v) == [some |-> TRUE, val |-> v]
NoPath == [some |-> FALSE, val |-> ""]

UpperChar(c) ==
    CASE c = "a" -> "A"
      [] c = "b" -> "B"
      [] c = "c" -> "C"
      [] OTHER -> c

to_uppercase(s) == [i \in 1..Len(s) |-> UpperChar(s[i])]

(* Option::and_then(|f| Some(f.to_uppercase())) *)
UpperOpt(o) == IF o.some THEN Some(to_uppercase(o.val)) ELSE None

(* ---------------------------------------------------------------------- *)
(* struct Label, struct Config and the layout file.                        *)
(* ---------------------------------------------------------------------- *)
Label(title, artist, release_year, cover) ==
    [title |-> title, artist |-> artist, release_year |-> release_year,
     cover |-> cover]

(* An entry of the "labels" array as written in the file: every key may   *)
(* be left out.                                                            *)
RawEntry(title, artist, release_year, cover) ==
    [title |-> title, artist |-> artist, release_year |-> release_year,
     cover |-> cover]

(* serde's derived Deserialize: title, artist and cover are required,     *)
(* release_year is an Option; the values are taken as written.             *)
EntryOk(e) == e.title.some /\ e.artist.some /\ e.cover.some
DeserializeLabel(e) == Label(e.title.val, e.artist.val, e.release_year, e.cover.val)

TomlOk(f) == f.kind = "toml" /\ \A i \in 1..Len(f.entries) : EntryOk(f.entries[i])
DeserializeConfig(f) == [i \in 1..Len(f.entries) |-> DeserializeLabel(f.entries[i])]

(* ---------------------------------------------------------------------- *)
(* The label source of main: Ok(labels) or Err(error).                     *)
(* ---------------------------------------------------------------------- *)
Ok(labels) == [ok |-> TRUE, labels |-> labels, error |-> "none"]
Err(e) == [ok |-> FALSE, labels |-> <<>>, error |-> e]

(* Variant: the release year is required like the other three fields.    *)
LabelSourceYearRequired(a, f) ==
    IF a.layout.some
    THEN IF f.kind = "unreadable" THEN Err("read_to_string")
         ELSE IF ~TomlOk(f) THEN Err("toml")
         ELSE Ok(DeserializeConfig(f))
    ELSE IF ~a.artist.some \/ ~a.title.some \/ ~a.release_year.some \/ ~a.cover.some
         THEN Err("missing_field")
         ELSE Ok(<< Label(to_uppercase(a.title.val), to_uppercase(a.artist.val),
                          UpperOpt(a.release_year), a.cover.val) >>)

(* Variant: an empty required field counts as a missing one.             *)
LabelSourceEmptyIsMissing(a, f) ==
    IF a.layout.some
    THEN IF f.kind = "unreadable" THEN Err("read_to_string")
         ELSE IF ~TomlOk(f) THEN Err("toml")
         ELSE Ok(DeserializeConfig(f))
    ELSE IF \/ ~a.artist.some \/ a.artist.val = <<>>
            \/ ~a.title.some \/ a.title.val = <<>>
            \/ ~a.cover.some \/ a.cover.val = ""
         THEN Err("missing_field")
         ELSE Ok(<< Label(to_uppercase(a.title.val), to_uppercase(a.artist.val),
                          UpperOpt(a.release_year), a.cover.val) >>)

(* Variant: with --layout, a complete set of CLI fields adds a label.    *)
LabelSourceCliAppended(a, f) ==
    IF a.layout.some
    THEN IF f.kind = "unreadable" THEN Err("read_to_string")
         ELSE IF ~TomlOk(f) THEN Err("toml")
         ELSE IF a.title.some /\ a.artist.some /\ a.cover.some
              THEN Ok(Append(DeserializeConfig(f),
                             Label(to_uppercase(a.title.val), to_uppercase(a.artist.val),
                                   UpperOpt(a.release_year), a.cover.val)))
              ELSE Ok(DeserializeConfig(f))
    ELSE IF ~a.artist.some \/ ~a.title.some \/ ~a.cover.some
         THEN Err("missing_field")
         ELSE Ok(<< Label(to_uppercase(a.title.val), to_uppercase(a.artist.val),
                          UpperOpt(a.release_year), a.cover.val) >>)

LabelSource(a, f) ==
    IF a.layout.some
    THEN IF f.kind = "unreadable" THEN Err("read_to_string")
         ELSE IF ~TomlOk(f) THEN Err("toml")
         ELSE Ok(DeserializeConfig(f))
    ELSE IF ~a.artist.some THEN Err("missing_field")
         ELSE IF ~a.title.some THEN Err("missing_field")
         ELSE IF ~a.cover.some THEN Err("missing_field")
         ELSE Ok(<< Label(to_uppercase(a.title.val), to_uppercase(a.artist.val),
                          UpperOpt(a.release_year), a.cover.val) >>)

(* ---------------------------------------------------------------------- *)
(* Images.                                                                 *)
(* ---------------------------------------------------------------------- *)
Black == 0
(* Pixel::invert on an Rgb<u8> channel *)
Invert(v) == 255 - v
(* A sheet column is either background of channel value v, or column j of *)
(* the k-th label image.                                                   *)
Background(v) == [src |-> "background", label |-> 0, v |-> v]
LabelPx(k, j) == [src |-> "label", label |-> k, v |-> j]

(* ImageBuffer::new followed by the invert loop of main *)
NewPrintableArea == [c \in 0..(PRITNABLE_WIDTH_PX - 1) |-> Background(Invert(Black))]

Max(a, b) == IF a >= b THEN a ELSE b
Min(a, b) == IF a <= b THEN a ELSE b

(* imageops::overlay's bounds along one axis: the first column written on  *)
(* the bottom image, the first column read from the top image, and the     *)
(* number of columns copied.                                               *)
OverlayBounds(bottom_w, top_w, x) ==
    IF x > bottom_w \/ x + top_w <= 0
    THEN [bottom |-> 0, top |-> 0, range |-> 0]
    ELSE [bottom |-> Max(x, 0), top |-> Max(-x, 0),
          range |-> Min(x + top_w, bottom_w) - Max(x, 0)]

(* Variant: columns beyond the right edge wrap around to the left.       *)
OverlayWrap(sheet, k, x) ==
    [c \in DOMAIN sheet |->
        LET j == (c - x) % PRITNABLE_WIDTH_PX
        IN IF j < LABEL_WIDTH_PX THEN LabelPx(k, j) ELSE sheet[c]]

(* Variant: a label that does not fit entirely is not drawn at all.      *)
OverlayInsideOnly(sheet, k, x) ==
    IF x + LABEL_WIDTH_PX > PRITNABLE_WIDTH_PX
    THEN sheet
    ELSE [c \in DOMAIN sheet |->
            IF c >= x /\ c < x + LABEL_WIDTH_PX THEN LabelPx(k, c - x) ELSE sheet[c]]

(* imageops::overlay(&mut printable_area, &label, x, 0): label k's columns *)
(* replace the sheet's inside the bounds (Rgb has no alpha).               *)
Overlay(sheet, k, x) ==
    LET b == OverlayBounds(PRITNABLE_WIDTH_PX, LABEL_WIDTH_PX, x)
    IN [c \in DOMAIN sheet |->
          IF c >= b.bottom /\ c < b.bottom + b.range
          THEN LabelPx(k, b.top + (c - b.bottom))
          ELSE sheet[c]]

(* Variant: one leading margin instead of two.                           *)
XPosOneMargin(pos) == (pos * LABEL_WIDTH_PX) + (MARGIN * (pos + 1))

(* let x_pos = (pos * LABEL_WIDTH_PX as usize) + (MARGIN as usize * (pos + 2)) *)
XPos(pos) == (pos * LABEL_WIDTH_PX) + (MARGIN * (pos + 2))

(* The label canvas: the drawing operations applied to it, in order.       *)
NewLabel == <<>>
Rect(op, x, y, w, h) == [op |-> op, x |-> x, y |-> y, w |-> w, h |-> h, text |-> <<>>]
(* draw_text at (x, y) with scale TEXT_SIZE_PT: the line is TEXT_SIZE_PT   *)
(* high; its width depends on the glyphs and is not recorded (w = 0).      *)
TextLine(x, y, text) ==
    [op |-> "text", x |-> x, y |-> y, w |-> 0, h |-> TEXT_SIZE_PT, text |-> text]

(* cover_image resizes to LABEL_WIDTH_PX x LABEL_WIDTH_PX; main overlays it at (0, 0) *)
OverlayCover(label) == Append(label, Rect("cover", 0, 0, LABEL_WIDTH_PX, LABEL_WIDTH_PX))

(* Variant: the logo inset by the full padding.                          *)
LogoXFullPadding == LABEL_WIDTH_PX - PADDING - MD_LOGO_SIZE

LogoX == LABEL_WIDTH_PX - (PADDING \div 2) - MD_LOGO_SIZE
LogoY == LABEL_HEIGHT_PX - (PADDING \div 2) - MD_LOGO_SIZE

OverlayLogo(label) == Append(label, Rect("logo", LogoX, LogoY, MD_LOGO_SIZE, MD_LOGO_SIZE))

first_line_y == LABEL_WIDTH_PX + PADDING
second_line_y == first_line_y + TEXT_SIZE_PT + PADDING
third_line_y == second_line_y + LINE_HEIGHT

(* Variant: without a year the two lines are centred in the text band.   *)
DrawTextYearSlotFirst(label, title_text, artist_text, release_year) ==
    IF release_year.some
    THEN label \o << TextLine(PADDING, first_line_y, title_text),
                     TextLine(PADDING, second_line_y, artist_text),
                     TextLine(PADDING, third_line_y, release_year.val) >>
    ELSE label \o << TextLine(PADDING, first_line_y + LINE_HEIGHT \div 2, title_text),
                     TextLine(PADDING, second_line_y + LINE_HEIGHT \div 2, artist_text) >>

(* The three draw_text calls of overlay_text *)
DrawText(label, title_text, artist_text, release_year) ==
    LET l1 == Append(label, TextLine(PADDING, first_line_y, title_text))
        l2 == Append(l1, TextLine(PADDING, second_line_y, artist_text))
    IN IF release_year.some
       THEN Append(l2, TextLine(PADDING, third_line_y, release_year.val))
       ELSE l2

(* Variant: the loop stops one label early.                              *)
LoopNextPcSaveEarly(p, n) == IF p < n - 1 THEN "cover" ELSE "save"

(* The for loop over label_config.labels: the next label, or the save after the last *)
LoopNextPc(p, n) == IF p < n THEN "cover" ELSE "save"

(* ---------------------------------------------------------------------- *)
(* Inputs.                                                                 *)
(* ---------------------------------------------------------------------- *)
TitleArgs == {None, Some(<<>>), Some(<<"a", "B">>)}
YearArgs == {None, Some(<<"c", "1">>)}
CoverArgs == {NoPath, [some |-> TRUE, val |-> ""], [some |-> TRUE, val |-> "cli.png"]}
LayoutPath == [some |-> TRUE, val |-> "layout.toml"]
OutputPath == [some |-> TRUE, val |-> "out.png"]

MkArgs(cover, title, artist, release_year, output, layout) ==
    [cover |-> cover, title |-> title, artist |-> artist,
     release_year |-> release_year, output |-> output, layout |-> layout]

RawEntries ==
    { RawEntry(Some(<<"a">>), Some(<<"x">>), None, [some |-> TRUE, val |-> "a.png"]),
      RawEntry(Some(<<"B">>), Some(<<"Y">>), Some(<<"1", "c">>), [some |-> TRUE, val |-> "b.png"]),
      RawEntry(None, Some(<<"Z">>), None, [some |-> TRUE, val |-> "c.png"]) }

EntrySeqs == UNION { [1..n -> RawEntries] : n \in 0..MaxLabels }

NoFile == [kind |-> "unreadable", entries |-> <<>>]
LayoutFiles ==
    {NoFile, [kind |-> "malformed", entries |-> <<>>]}
    \cup { [kind |-> "toml", entries |-> es] : es \in EntrySeqs }

SingleArgs ==
    { MkArgs(c, t, a, y, OutputPath, NoPath) :
        c \in CoverArgs, t \in TitleArgs, a \in TitleArgs, y \in YearArgs }

(* The command lines that differ from a only in the four label fields *)
FieldVariants(a) ==
    { MkArgs(c, t, r, y, a.output, a.layout) :
        c \in CoverArgs, t \in TitleArgs, r \in TitleArgs, y \in YearArgs }

LayoutArgs ==
    { MkArgs(NoPath, None, None, None, OutputPath, LayoutPath),
      MkArgs([some |-> TRUE, val |-> "cli.png"], Some(<<"a", "B">>), Some(<<"a", "B">>),
             Some(<<"c", "1">>), OutputPath, LayoutPath) }

NoOutputArgs ==
    { MkArgs([some |-> TRUE, val |-> "cli.png"], Some(<<"a", "B">>), Some(<<"a", "B">>),
             None, NoPath, NoPath) }

(* What the file system answers for a cover path *)
CoverOutcomes(path) ==
    IF path = "" THEN {"canonicalize"} ELSE {"ok", "canonicalize", "image_open"}
LogoOutcomes == {"ok", "download_dir", "logo_open"}

(* ---------------------------------------------------------------------- *)
(* State.                                                                  *)
(* ---------------------------------------------------------------------- *)
VARIABLES
    pc,              \* the statement of main that runs next
    args,            \* the command line as clap sees it
    layoutFile,      \* what is stored at the --layout path
    labels,          \* label_config.labels
    printable_area,  \* the sheet, <<>> before it is allocated
    pos,             \* the loop index
    label,           \* the label canvas of the current iteration
    placed,          \* the overlays made on the sheet so far: descriptor, x, y
    saves,           \* how many times printable_area.save was called
    outcome,         \* "running", "ok", "err", "panic" or "usage"
    error            \* the expression that failed, "none" while nothing has

vars == <<pc, args, layoutFile, labels, printable_area, pos, label, placed,
          saves, outcome, error>>

Init ==
    /\ \/ args \in SingleArgs \cup NoOutputArgs /\ layoutFile = NoFile
       \/ args \in LayoutArgs /\ layoutFile \in LayoutFiles
    /\ pc = "parse_args"
    /\ labels = <<>>
    /\ printable_area = <<>>
    /\ pos = 0
    /\ label = NewLabel
    /\ placed = <<>>
    /\ saves = 0
    /\ outcome = "running"
    /\ error = "none"

Fail(kind, e) ==
    /\ pc' = "done"
    /\ outcome' = kind
    /\ error' = e

(* Args::parse(): --output is the one required argument; without it clap  *)
(* prints the usage and exits.                                             *)
ParseArgs ==
    /\ pc = "parse_args"
    /\ IF args.output.some
       THEN pc' = "label_source" /\ UNCHANGED <<outcome, error>>
       ELSE Fail("usage", "clap")
    /\ UNCHANGED <<args, layoutFile, labels, printable_area, pos, label, placed, saves>>

(* The if/else of main that fills label_config *)
BuildLabelConfig ==
    /\ pc = "label_source"
    /\ LET r == LabelSource(args, layoutFile)
       IN IF r.ok
          THEN /\ labels' = r.labels
               /\ pc' = "create_sheet"
               /\ UNCHANGED <<outcome, error>>
          ELSE /\ Fail("err", r.error)
               /\ UNCHANGED labels
    /\ UNCHANGED <<args, layoutFile, printable_area, pos, label, placed, saves>>

(* The white background, then the loop head *)
CreatePrintableArea ==
    /\ pc = "create_sheet"
    /\ printable_area' = NewPrintableArea
    /\ pos' = 0
    /\ pc' = LoopNextPc(0, Len(labels))
    /\ UNCHANGED <<args, layoutFile, labels, label, placed, saves, outcome, error>>

(* A new label canvas and the cover: fs::canonicalize(path)? returns the  *)
(* error, image::open(..).unwrap() panics.                                 *)
CoverStep ==
    /\ pc = "cover"
    /\ \E res \in CoverOutcomes(labels[pos + 1].cover) :
          CASE res = "ok" ->
                 /\ label' = OverlayCover(NewLabel)
                 /\ pc' = "logo"
                 /\ UNCHANGED <<outcome, error>>
            [] res = "canonicalize" ->
                 /\ Fail("err", "canonicalize")
                 /\ label' = NewLabel
            [] OTHER ->
                 /\ Fail("panic", "image_open")
                 /\ label' = NewLabel
    /\ UNCHANGED <<args, layoutFile, labels, printable_area, pos, placed, saves>>

(* overlay_minidisc_logo *)
LogoStep ==
    /\ pc = "logo"
    /\ \E res \in LogoOutcomes :
          IF res = "ok"
          THEN /\ label' = OverlayLogo(label)
               /\ pc' = "text"
               /\ UNCHANGED <<outcome, error>>
          ELSE /\ Fail("err", res)
               /\ UNCHANGED label
    /\ UNCHANGED <<args, layoutFile, labels, printable_area, pos, placed, saves>>

(* overlay_text: the font is parsed before anything is drawn *)
TextStep ==
    /\ pc = "text"
    /\ \E font_ok \in BOOLEAN :
          IF font_ok
          THEN /\ label' = DrawText(label, labels[pos + 1].title, labels[pos + 1].artist,
                                    labels[pos + 1].release_year)
               /\ pc' = "place"
               /\ UNCHANGED <<outcome, error>>
          ELSE /\ Fail("err", "font")
               /\ UNCHANGED label
    /\ UNCHANGED <<args, layoutFile, labels, printable_area, pos, placed, saves>>

(* Push the label onto the background, then the loop head *)
PlaceStep ==
    /\ pc = "place"
    /\ printable_area' = Overlay(printable_area, pos, XPos(pos))
    /\ placed' = Append(placed, [label |-> labels[pos + 1], canvas |-> label,
                                 x |-> XPos(pos), y |-> 0])
    /\ pos' = pos + 1
    /\ pc' = LoopNextPc(pos + 1, Len(labels))
    /\ UNCHANGED <<args, layoutFile, labels, label, saves, outcome, error>>

(* printable_area.save(args.output)? *)
SaveStep ==
    /\ pc = "save"
    /\ saves' = saves + 1
    /\ pc' = "done"
    /\ \E ok \in BOOLEAN :
          IF ok THEN outcome' = "ok" /\ error' = "none"
                ELSE outcome' = "err" /\ error' = "save"
    /\ UNCHANGED <<args, layoutFile, labels, printable_area, pos, label, placed>>

Next ==
    \/ ParseArgs
    \/ BuildLabelConfig
    \/ CreatePrintableArea
    \/ CoverStep
    \/ LogoStep
    \/ TextStep
    \/ PlaceStep
    \/ SaveStep

Spec == Init /\ [][Next]_vars

(* ---------------------------------------------------------------------- *)
(* Properties.                                                             *)
(* ---------------------------------------------------------------------- *)
SingleMode == args.output.some /\ ~args.layout.some
BatchMode == args.output.some /\ args.layout.some
PastSource == pc \notin {"parse_args", "label_source"}
AllPresent == args.title.some /\ args.artist.some /\ args.cover.some
LoopFinished == pc = "save" \/ saves > 0
Composing == pc \in {"cover", "logo", "text", "place"}
TextLines(canvas) == SelectSeq(canvas, LAMBDA d : d.op = "text")
OnSheet(k) ==
    \E c \in DOMAIN printable_area :
        printable_area[c].src = "label" /\ printable_area[c].label = k
Intersects(ax, ay, aw, ah, bx, by, bw, bh) ==
    ax < bx + bw /\ bx < ax + aw /\ ay < by + bh /\ by < ay + ah

(* C1: the k-th overlay on the sheet is at x = k*LABEL_WIDTH_PX +          *)
(* MARGIN*(k+2), y = 0; with label width 864 and margin 20 the offsets are *)
(* strictly increasing and the extents [x_k, x_k + LABEL_WIDTH_PX) of two  *)
(* different labels do not overlap.                                        *)
C1_LabelOffsets ==
    /\ LABEL_WIDTH_PX = 864 /\ MARGIN = 20
    /\ \A i \in 1..Len(placed) :
          /\ placed[i].x = (i - 1) * LABEL_WIDTH_PX + MARGIN * ((i - 1) + 2)
          /\ placed[i].y = 0
    /\ \A i, j \in 1..Len(placed) :
          i < j => /\ placed[i].x < placed[j].x
                   /\ placed[i].x + LABEL_WIDTH_PX <= placed[j].x

C1_Witness == Len(placed) >= 3 /\ placed[3].x = 1808

(* C2: the sheet is saved at most once and only after every label has     *)
(* been composed and overlaid; when argument validation, the layout file,  *)
(* the label source or the cover / logo / font step of any label fails,    *)
(* the run ends with an error outcome and save was never called.           *)
C2_NoOutputOnFailure ==
    /\ saves <= 1
    /\ saves = 1 =>
          /\ pos = Len(labels)
          /\ Len(placed) = Len(labels)
          /\ \A i \in 1..Len(labels) : placed[i].label = labels[i]
    /\ error \in {"clap", "read_to_string", "toml", "missing_field", "canonicalize",
                  "image_open", "download_dir", "logo_open", "font"} =>
          /\ saves = 0
          /\ pc = "done"
          /\ outcome \in {"err", "panic", "usage"}
    /\ outcome = "ok" => saves = 1 /\ pc = "done"

C2_Witness ==
    /\ error \in {"canonicalize", "image_open", "logo_open", "font"}
    /\ Len(labels) = 3 /\ pos = 1 /\ Len(placed) = 1
    /\ saves = 0 /\ pc = "done"

(* C3: in single mode, with title, artist and cover present the label     *)
(* source yields exactly one descriptor and no missing-field error, and    *)
(* the run can only fail later in a cover, logo, font or save step; with   *)
(* one of the three absent the run fails with the missing-field error      *)
(* before any label is composed and never saves; whether the release year  *)
(* is present never changes whether the label source succeeds.             *)
C3_SingleMode ==
    (SingleMode /\ PastSource) =>
        /\ AllPresent =>
              /\ Len(labels) = 1
              /\ labels[1].cover = args.cover.val
              /\ error \notin {"missing_field", "clap", "read_to_string", "toml"}
              /\ (pc = "done" /\ outcome # "ok") =>
                    error \in {"canonicalize", "image_open", "download_dir",
                               "logo_open", "font", "save"}
        /\ ~AllPresent =>
              /\ pc = "done" /\ outcome = "err" /\ error = "missing_field"
              /\ labels = <<>> /\ label = NewLabel /\ placed = <<>>
              /\ printable_area = <<>> /\ saves = 0
        /\ \A y \in YearArgs :
              LabelSource([args EXCEPT !.release_year = y], layoutFile).ok
                 = LabelSource(args, layoutFile).ok

C3_Witness ==
    /\ SingleMode /\ AllPresent /\ ~args.release_year.some
    /\ pc = "done" /\ outcome = "ok" /\ saves = 1 /\ Len(placed) = 1

(* C4 as claimed: after the loop of a batch run over a layout file with K  *)
(* entries, K labels were overlaid in file order and each of them has      *)
(* pixels on the sheet.                                                    *)
C4_AllLabelsOnSheet ==
    (BatchMode /\ PastSource /\ LoopFinished /\ Len(layoutFile.entries) >= 1) =>
        /\ Len(placed) = Len(layoutFile.entries)
        /\ \A i \in 1..Len(placed) :
              /\ placed[i].label = DeserializeLabel(layoutFile.entries[i])
              /\ OnSheet(i - 1)

(* C4 as amended: after the loop of a batch run over a layout file with K  *)
(* entries, K labels were overlaid in file order, left to right; the       *)
(* labels at positions 0, 1 and 2 have pixels on the sheet and every label *)
(* from position 3 on has none.                                            *)
C4_LabelsInFileOrder ==
    (BatchMode /\ PastSource /\ LoopFinished /\ Len(layoutFile.entries) >= 1) =>
        /\ Len(placed) = Len(layoutFile.entries)
        /\ \A i \in 1..Len(placed) :
              /\ placed[i].label = DeserializeLabel(layoutFile.entries[i])
              /\ \A j \in 1..Len(placed) : i < j => placed[i].x < placed[j].x
              /\ OnSheet(i - 1) <=> (i - 1) <= 2

C4_Witness ==
    /\ BatchMode /\ LoopFinished /\ Len(layoutFile.entries) = 4
    /\ Len(placed) = 4 /\ OnSheet(2) /\ ~OnSheet(3)

(* C5 as claimed: the descriptor being composed has an uppercase title and *)
(* artist, and an uppercase release year when it has one.                  *)
C5_UppercaseNormalized ==
    Composing =>
        LET d == labels[pos + 1]
        IN /\ d.title = to_uppercase(d.title)
           /\ d.artist = to_uppercase(d.artist)
           /\ d.release_year.some => d.release_year.val = to_uppercase(d.release_year.val)

(* C6: with --layout given, the label source yields the same result for    *)
(* every command line that differs only in title, artist, release year and *)
(* cover, and the descriptors of the run are exactly the entries of the    *)
(* file: none is built from the command line.                              *)
C6_LayoutIgnoresCliFields ==
    BatchMode =>
        /\ \A b \in FieldVariants(args) :
              LabelSource(b, layoutFile) = LabelSource(args, layoutFile)
        /\ PastSource =>
              IF layoutFile.kind = "toml"
                 /\ \A i \in 1..Len(layoutFile.entries) :
                       /\ layoutFile.entries[i].title.some
                       /\ layoutFile.entries[i].artist.some
                       /\ layoutFile.entries[i].cover.some
              THEN /\ Len(labels) = Len(layoutFile.entries)
                   /\ \A i \in 1..Len(labels) :
                         /\ labels[i].title = layoutFile.entries[i].title.val
                         /\ labels[i].artist = layoutFile.entries[i].artist.val
                         /\ labels[i].release_year = layoutFile.entries[i].release_year
                         /\ labels[i].cover = layoutFile.entries[i].cover.val
                   /\ error \notin {"missing_field", "read_to_string", "toml"}
              ELSE /\ labels = <<>> /\ pc = "done" /\ outcome = "err"
                   /\ error = IF layoutFile.kind = "unreadable"
                              THEN "read_to_string" ELSE "toml"

C6_Witness ==
    /\ BatchMode /\ AllPresent /\ args.release_year.some
    /\ Len(labels) >= 2 /\ pc = "done" /\ outcome = "ok"

(* C7: after overlay_text the canvas holds the title at (PADDING,          *)
(* LABEL_WIDTH_PX + PADDING) and the artist at (PADDING, title y + text    *)
(* size + PADDING), whether or not there is a release year; a third line,  *)
(* at artist y + (LABEL_HEIGHT_PX - LABEL_WIDTH_PX)/3, is there if and     *)
(* only if the release year is Some.                                       *)
C7_YearRemovesThirdLineOnly ==
    pc = "place" =>
        LET d == labels[pos + 1]
            t == TextLines(label)
        IN /\ Len(t) = IF d.release_year.some THEN 3 ELSE 2
           /\ t[1].text = d.title /\ t[1].x = PADDING
           /\ t[1].y = LABEL_WIDTH_PX + PADDING
           /\ t[2].text = d.artist /\ t[2].x = PADDING
           /\ t[2].y = t[1].y + TEXT_SIZE_PT + PADDING
           /\ d.release_year.some =>
                 /\ t[3].text = d.release_year.val /\ t[3].x = PADDING
                 /\ t[3].y = t[2].y + (LABEL_HEIGHT_PX - LABEL_WIDTH_PX) \div 3

C7_Witness ==
    /\ pc = "place" /\ Len(placed) = 1
    /\ placed[1].label.release_year.some /\ Len(TextLines(placed[1].canvas)) = 3
    /\ ~labels[pos + 1].release_year.some /\ Len(TextLines(label)) = 2

(* C8 as claimed: in single mode a required field that is given but empty  *)
(* makes the run fail with the missing-field error, with no label composed *)
(* and nothing saved.                                                      *)
EmptyGiven ==
    \/ args.title.some /\ args.title.val = <<>>
    \/ args.artist.some /\ args.artist.val = <<>>
    \/ args.cover.some /\ args.cover.val = ""

C8_EmptyTreatedAsAbsent ==
    (SingleMode /\ EmptyGiven /\ PastSource) =>
        /\ pc = "done" /\ outcome = "err" /\ error = "missing_field"
        /\ label = NewLabel /\ placed = <<>> /\ saves = 0

(* C8 as amended: in single mode a required field that is given but empty  *)
(* is not treated like an absent one: the missing-field error is raised    *)
(* exactly when title, artist or cover is absent; an empty title or artist *)
(* becomes the (empty) text of the one descriptor; an empty cover path     *)
(* passes the label source and fails in the cover step, with no label      *)
(* composed and nothing saved.                                             *)
C8_EmptyIsNotAbsent ==
    (SingleMode /\ PastSource) =>
        /\ (error = "missing_field") <=> ~AllPresent
        /\ (AllPresent /\ EmptyGiven) =>
              /\ Len(labels) = 1
              /\ labels[1].title = to_uppercase(args.title.val)
              /\ labels[1].artist = to_uppercase(args.artist.val)
              /\ labels[1].cover = args.cover.val
              /\ args.cover.val = "" =>
                    /\ label = NewLabel /\ placed = <<>> /\ saves = 0
                    /\ pc = "done" => outcome = "err" /\ error = "canonicalize"

C8_Witness ==
    /\ SingleMode /\ args.title.some /\ args.title.val = <<>>
    /\ args.artist.some /\ args.artist.val = <<>>
    /\ Len(placed) = 1 /\ placed[1].label.title = <<>>
    /\ pc = "done" /\ outcome = "ok" /\ saves = 1

(* C9: placing a label never fails, whatever its position: label pos is    *)
(* recorded as overlaid, the run goes on to the next label or to the save, *)
(* the sheet columns in [x, x + LABEL_WIDTH_PX) that exist on the sheet    *)
(* take the label's columns and every other column keeps its value; the    *)
(* save is reached with all labels overlaid in order and no error.         *)
C9_NoMaximumSilentClipping ==
    [][ /\ pc = "place" =>
              LET x == pos * LABEL_WIDTH_PX + MARGIN * (pos + 2)
              IN /\ pc' \in {"cover", "save"}
                 /\ outcome' = "running" /\ error' = "none"
                 /\ Len(placed') = pos + 1
                 /\ placed'[pos + 1].label = labels[pos + 1]
                 /\ DOMAIN printable_area' = 0..(PRITNABLE_WIDTH_PX - 1)
                 /\ \A c \in 0..(PRITNABLE_WIDTH_PX - 1) :
                       printable_area'[c] =
                          IF x <= c /\ c < x + LABEL_WIDTH_PX
                          THEN LabelPx(pos, c - x)
                          ELSE printable_area[c]
        /\ pc' = "save" =>
              /\ outcome' = "running" /\ error' = "none"
              /\ Len(placed') = Len(labels)
              /\ \A i \in 1..Len(labels) : placed'[i].label = labels[i]
      ]_vars

C9_Witness ==
    /\ pc = "done" /\ outcome = "ok" /\ saves = 1
    /\ Len(placed) = 4
    /\ placed[3].x < PRITNABLE_WIDTH_PX /\ placed[3].x + LABEL_WIDTH_PX > PRITNABLE_WIDTH_PX
    /\ placed[4].x >= PRITNABLE_WIDTH_PX
    /\ printable_area[PRITNABLE_WIDTH_PX - 1] = LabelPx(2, PRITNABLE_WIDTH_PX - 1 - placed[3].x)
    /\ printable_area[placed[1].x] = LabelPx(0, 0)

(* The geometry of one composed label that C10 states apart from the text  *)
(* against the logo: the cover square, the logo square inside the canvas   *)
(* and below the cover, the line slots disjoint and inside the text band.  *)
LogoOf(canvas) == SelectSeq(canvas, LAMBDA d : d.op = "logo")[1]
CoverOf(canvas) == SelectSeq(canvas, LAMBDA d : d.op = "cover")[1]
LabelGeometry(canvas) ==
    LET cover == CoverOf(canvas)
        logo == LogoOf(canvas)
        t == TextLines(canvas)
    IN /\ cover.x = 0 /\ cover.y = 0
       /\ cover.w = LABEL_WIDTH_PX /\ cover.h = LABEL_WIDTH_PX
       /\ logo.w = MD_LOGO_SIZE /\ logo.h = MD_LOGO_SIZE
       /\ logo.x = LABEL_WIDTH_PX - PADDING \div 2 - MD_LOGO_SIZE
       /\ logo.y = LABEL_HEIGHT_PX - PADDING \div 2 - MD_LOGO_SIZE
       /\ logo.x >= 0 /\ logo.x + logo.w <= LABEL_WIDTH_PX
       /\ logo.y >= cover.y + cover.h /\ logo.y + logo.h <= LABEL_HEIGHT_PX
       /\ \A i \in 1..Len(t) :
             /\ t[i].y >= LABEL_WIDTH_PX /\ t[i].y + t[i].h <= LABEL_HEIGHT_PX
             /\ \A j \in 1..Len(t) : i < j => t[i].y + t[i].h <= t[j].y

(* C10 as claimed: the geometry above, and no drawn line, whatever its     *)
(* width up to LABEL_WIDTH_PX - PADDING, intersects the logo square.       *)
C10_NoOverlapInLabel ==
    pc = "place" =>
        /\ LabelGeometry(label)
        /\ \A i \in 1..Len(TextLines(label)) :
              \A w \in 0..(LABEL_WIDTH_PX - PADDING) :
                 LET t == TextLines(label)[i]
                     logo == LogoOf(label)
                 IN ~Intersects(t.x, t.y, w, t.h, logo.x, logo.y, logo.w, logo.h)

(* C10 as amended: the geometry above; the title line never intersects the *)
(* logo square, and the artist line and the release-year line intersect it *)
(* exactly when they are wider than LABEL_WIDTH_PX - PADDING/2 -           *)
(* MD_LOGO_SIZE - PADDING = 644 pixels.                                    *)
C10_TextClearOfLogoUpTo644 ==
    pc = "place" =>
        /\ LabelGeometry(label)
        /\ \A i \in 1..Len(TextLines(label)) :
              \A w \in 0..(LABEL_WIDTH_PX - PADDING) :
                 LET t == TextLines(label)[i]
                     logo == LogoOf(label)
                 IN Intersects(t.x, t.y, w, t.h, logo.x, logo.y, logo.w, logo.h)
                       <=> (i >= 2 /\ w > 644)

C10_Witness ==
    /\ pc = "place" /\ Len(TextLines(label)) = 3
    /\ LET t == TextLines(label)[3]
           logo == LogoOf(label)
       IN /\ Intersects(t.x, t.y, 645, t.h, logo.x, logo.y, logo.w, logo.h)
          /\ ~Intersects(t.x, t.y, 644, t.h, logo.x, logo.y, logo.w, logo.h)

====
